---- MODULE Spec2Model ----
(***************************************************************************)
(* Frame distribution engine of the GO2 video bridge, variants v1..v4      *)
(* (tools/go2_video_bridge.py, _v2.py, _v3.py, _v4.py).                    *)
(*                                                                         *)
(* Two execution domains share VideoState:                                 *)
(*   - the producer (capture thread in v1, GStreamer streaming thread in   *)
(*     v2..v4) stores encoded frames under video_state.lock, a             *)
(*     non-reentrant threading.Lock;                                       *)
(*   - the asyncio event loop thread runs one handle_client coroutine per  *)
(*     session.  Only one coroutine runs at a time (cur); a coroutine      *)
(*     gives the loop back only at an await.  A coroutine that blocks in   *)
(*     `with video_state.lock` blocks the whole event loop thread.         *)
(***************************************************************************)
EXTENDS Integers, Sequences, FiniteSets, TLC

\* ---------------------------------------------------------------- bounds
NumSessions == 2
MaxCalls == 4
MaxSamples == 2
MaxTime == 2

\* ------------------------------------------------------ program constants
FrameTimesMaxlen == 30

Variants == 1..4
\* the sessions that connect under Spec, and under the wider SpecWide, which
\* admits one session more
Sessions == 1..NumSessions
AllSessions == 1..(NumSessions + 1)

\* Python's None for latest_frame; payloads of real samples are 1, 2, ...
None == 0
\* lock owner / running coroutine encodings
NoOne == 0
Producer == -1

\* a rate n/d kept as an exact fraction; 0 is <<0, 1>>
ZeroFps == <<0, 1>>

NoSnap == [id |-> -1, data |-> None, ts |-> 0, fps |-> ZeroFps]

\* a frame id can exceed the 32-bit integers of TLC, so it is written in
\* two halves, id = hi * 65536 + lo; the observation begins at id 0
NoBase == [hi |-> 0, lo |-> 0]

\* GO2VideoReceiver.__init__ (v2 lines 67-69): pipeline = None, running =
\* False; `state` is the GStreamer state of the pipeline once it is created
NoReceiver == [pipeline |-> FALSE, state |-> "NULL", running |-> FALSE]

\* the receiver after start() returned True
StartedReceiver == [pipeline |-> TRUE, state |-> "PLAYING", running |-> TRUE]

VARIABLES
    variant,            \* which bridge script is running
    now,                \* the last value time.time() returned
    latest_frame,       \* video_state.latest_frame
    frame_id,           \* video_state.frame_id
    timestamp,          \* video_state.timestamp
    fps,                \* video_state.fps (v1..v3)
    connected,          \* video_state.connected (v1..v3; v4 has no such field)
    frame_times,        \* video_state.frame_times, deque(maxlen=30)
    lock,               \* owner of video_state.lock
    prod,               \* position of the producer
    jpeg_bytes,         \* producer local: the encoded sample
    current_time,       \* producer local (v1): time.time() taken before the lock
    samples,            \* number of samples the source has delivered
    src_down,           \* ghost: the source reported a failure since the last sample
    stored,             \* ghost: the payloads assigned to latest_frame, in order
    history,            \* ghost: the (id, payload, timestamp) triples stored
    connected_clients,  \* the registry
    pc,                 \* position of each handle_client
    last_frame_id,      \* handle_client local
    snap,               \* handle_client locals frame_id/frame_data/timestamp/fps
    last_sent,          \* ghost: id of the last frame passed to websocket.send
    prev_sent,          \* ghost: id of the frame passed to websocket.send before it
    delivered,          \* ghost: id of the last frame whose send returned
    cur,                \* coroutine the event loop thread is running
    down_at,            \* ghost: frame_id when connected was last set to False
    first_msg,          \* ghost: kind of the first message sent to each transport
    b_pc,               \* position of broadcast_status (v1, v2)
    b_snap,             \* ghost: the registry when the current tick began to send
    b_todo,             \* broadcast_status: clients of the copied list still to do
    b_curr,             \* broadcast_status: client whose send is awaited
    b_sent,             \* ghost: clients the current tick's message was sent to
    b_fail,             \* ghost: clients whose send failed in the current tick
    main_pc,            \* position of main()
    source,             \* the video source: "none", "running", "failed", "stopped"
    sig,                \* the signal the process received, "none" if none
    exit_status,        \* exit status of the process, -1 while it runs
    receiver,           \* GO2VideoReceiver: pipeline created, its state, running
    recv_calls,         \* ghost: the calls of receiver.start() / stop() made
    wire_in,            \* handle_client locals from which a binary message is built
    wire_msg,           \* the binary message built from them, a sequence of bytes
    id_base,            \* video_state.frame_id when the observation begins
    stalled             \* the session whose consumer never reads, NoOne if none

slot == <<latest_frame, frame_id, timestamp>>
state_vars == <<latest_frame, frame_id, timestamp, fps, connected, frame_times>>
prod_vars == <<prod, jpeg_bytes, current_time, samples, src_down, stored,
              history, down_at>>
sess_vars == <<connected_clients, pc, last_frame_id, snap, last_sent, prev_sent,
              delivered, cur, first_msg>>
bcast_vars == <<b_pc, b_snap, b_todo, b_curr, b_sent, b_fail>>
life_vars == <<main_pc, source, sig, exit_status, receiver, recv_calls>>
wire_vars == <<wire_in, wire_msg>>
env_vars == <<id_base, stalled>>
aux_vars == <<bcast_vars, life_vars, wire_vars, env_vars>>
vars == <<variant, now, latest_frame, frame_id, timestamp, fps, connected,
          frame_times, lock, prod, jpeg_bytes, current_time, samples, src_down,
          stored, history,
          connected_clients, pc, last_frame_id, snap, last_sent, prev_sent,
          delivered, cur,
          down_at, first_msg, bcast_vars, life_vars, wire_vars, env_vars>>

\* ------------------------------------------------------------------ Init
\* VideoState.__init__
InitVideoState ==
    /\ latest_frame = None
    /\ frame_id = 0
    /\ timestamp = 0
    /\ fps = ZeroFps
    /\ frame_times = << >>

\* connected_clients = set(); no thread, task or call has begun
InitRest ==
    /\ now = 1
    /\ lock = NoOne
    /\ prod = "idle"
    /\ jpeg_bytes = None
    /\ current_time = 0
    /\ samples = 0
    /\ src_down = FALSE
    /\ stored = << >>
    /\ history = {<<0, None, 0>>}
    /\ connected_clients = {}
    /\ pc = [s \in AllSessions |-> "idle"]
    /\ last_frame_id = [s \in AllSessions |-> -1]
    /\ snap = [s \in AllSessions |-> NoSnap]
    /\ last_sent = [s \in AllSessions |-> 0]
    /\ prev_sent = [s \in AllSessions |-> 0]
    /\ delivered = [s \in AllSessions |-> 0]
    /\ cur = NoOne
    /\ down_at = 0
    /\ first_msg = [s \in AllSessions |-> "none"]
    /\ b_pc = "sleep"
    /\ b_snap = {}
    /\ b_todo = {}
    /\ b_curr = NoOne
    /\ b_sent = {}
    /\ b_fail = {}
    /\ sig = "none"
    /\ exit_status = -1
    /\ wire_msg = << >>

\* nothing started yet, the frame counter at 0
InitState ==
    /\ variant \in Variants
    /\ InitVideoState
    /\ InitRest
    /\ id_base = NoBase

\* the server is serving and the source was started: v1 sets connected = True
\* once the capture is opened, before the first read
InitServing ==
    /\ InitState
    /\ connected = (variant = 1)
    /\ main_pc = "serving"
    /\ source = "running"
    /\ receiver = IF variant = 1 THEN NoReceiver ELSE StartedReceiver
    /\ recv_calls = IF variant = 1 THEN << >> ELSE <<"start">>
    /\ wire_in = NoSnap

Init == InitServing /\ stalled = NoOne

\* main() begins: the source is not yet started
InitLife ==
    /\ InitState
    /\ connected = FALSE
    /\ main_pc = "start"
    /\ source = "none"
    /\ receiver = NoReceiver
    /\ recv_calls = << >>
    /\ wire_in = NoSnap
    /\ stalled = NoOne

\* ------------------------------------------------------------ producer
\* the values one call of time.time() can return: the clock does not go back
TimeRead == {t \in {now, now + 1} : t <= MaxTime}

\* v1 lines 95-107: cap.read() and cv2.imencode succeed, the time is taken
\* before the lock.  v2/v3: pull-sample, buffer.map and the JPEG encoder
\* succeed.  v4: pull-sample and buffer.map succeed (GStreamer encoded).
\* The producer then goes for video_state.lock.
NewSample ==
    /\ prod = "idle"
    /\ samples < MaxSamples
    /\ samples' = samples + 1
    /\ jpeg_bytes' = samples + 1
    /\ src_down' = FALSE
    /\ prod' = "wait"
    /\ IF variant = 1
          THEN \E t \in TimeRead : current_time' = t /\ now' = t
          ELSE UNCHANGED <<current_time, now>>
    /\ UNCHANGED <<variant, state_vars, lock, stored, history, down_at,
                   sess_vars, aux_vars>>

\* (mutation of EncodeFail: the frame id is assigned before the encoder runs)
EncodeFail_BumpsId ==
    /\ prod = "idle"
    /\ samples < MaxSamples
    /\ samples' = samples + 1
    /\ src_down' = FALSE
    /\ frame_id' = frame_id + 1
    /\ UNCHANGED <<variant, now, latest_frame, timestamp, fps, connected,
                   frame_times, lock, prod, jpeg_bytes, current_time, stored,
                   history, down_at, sess_vars, aux_vars>>

\* v1 lines 102-104: imencode returns success = False, `continue`.
\* v2 lines 104-112, 134: the encoder raises, the exception leaves
\* on_new_sample through `finally: buffer.unmap`, before the lock is taken.
\* v3 lines 117-130, 154.  v4 lines 82-89: no sample / map failed.
EncodeFail ==
    /\ prod = "idle"
    /\ samples < MaxSamples
    /\ samples' = samples + 1
    /\ src_down' = FALSE
    /\ UNCHANGED <<variant, now, state_vars, lock, prod, jpeg_bytes,
                   current_time, stored, history, down_at, sess_vars, aux_vars>>

\* `with video_state.lock:` in the producer; blocks while the lock is taken
ProdAcquire ==
    /\ prod = "wait"
    /\ lock = NoOne
    /\ lock' = Producer
    /\ prod' = "w_frame"
    /\ UNCHANGED <<variant, now, state_vars, jpeg_bytes, current_time,
                   samples, src_down, stored, history, sess_vars, down_at,
                   aux_vars>>

\* video_state.latest_frame = jpeg_bytes
ProdWriteFrame ==
    /\ prod = "w_frame"
    /\ latest_frame' = jpeg_bytes
    /\ stored' = Append(stored, jpeg_bytes)
    /\ prod' = "w_id"
    /\ UNCHANGED <<variant, now, frame_id, timestamp, fps, connected,
                   frame_times, lock, jpeg_bytes, current_time, samples,
                   src_down, history, sess_vars, down_at, aux_vars>>

\* (mutation of NextFrameId: the counter steps by two)
NextFrameId_Skip(id) == id + 2

\* video_state.frame_id += 1
NextFrameId(id) == id + 1

ProdWriteId ==
    /\ prod = "w_id"
    /\ frame_id' = NextFrameId(frame_id)
    /\ prod' = "w_ts"
    /\ UNCHANGED <<variant, now, latest_frame, timestamp, fps, connected,
                   frame_times, lock, jpeg_bytes, current_time, samples,
                   src_down, stored, history, sess_vars, down_at, aux_vars>>

\* (mutation of ConnectedAfterStore: a stored sample leaves connected alone)
ConnectedAfterStore_Keep(c) == c

\* v2 line 121, v3 line 139: video_state.connected = True at the end of the
\* slot update; v1 and v4 have no such assignment
ConnectedAfterStore(c) == IF variant \in {2, 3} THEN TRUE ELSE c

\* video_state.timestamp = current_time (v1) / time.time() (v2..v4);
\* v2/v3 also set width, height and connected = True here.
ProdWriteTs ==
    /\ prod = "w_ts"
    /\ \E t \in (IF variant = 1 THEN {current_time} ELSE TimeRead) :
          /\ timestamp' = t
          /\ now' = IF variant = 1 THEN now ELSE t
          /\ history' = history \cup {<<frame_id, latest_frame, t>>}
    /\ connected' = ConnectedAfterStore(connected)
    /\ prod' = "w_fps"
    /\ UNCHANGED <<variant, latest_frame, frame_id, fps, frame_times, lock,
                   jpeg_bytes, current_time, samples, src_down, stored,
                   sess_vars, down_at, aux_vars>>

\* deque(maxlen=30).append: the oldest entry is dropped when full
Append30(q, t) ==
    IF Len(q) >= FrameTimesMaxlen THEN Append(Tail(q), t) ELSE Append(q, t)

\* (mutation of FpsAfter: the rate counts the entries, not the intervals)
FpsAfter_CountsEntries(q, old) ==
    IF variant # 4 /\ Len(q) >= 2 /\ q[Len(q)] - q[1] > 0
       THEN <<Len(q), q[Len(q)] - q[1]>>
       ELSE old

\* v1 lines 116-119, v2 lines 125-128, v3 lines 142-145: fps is replaced only
\* when the window holds two entries and spans a positive duration.
\* v4 keeps no fps field.
FpsAfter(q, old) ==
    IF variant # 4 /\ Len(q) >= 2 /\ q[Len(q)] - q[1] > 0
       THEN <<Len(q) - 1, q[Len(q)] - q[1]>>
       ELSE old

\* frame_times.append(...), the fps update, and the end of the `with` block
ProdFps ==
    /\ prod = "w_fps"
    /\ \E t \in (IF variant = 1 THEN {current_time} ELSE TimeRead) :
          /\ frame_times' = Append30(frame_times, t)
          /\ now' = IF variant = 1 THEN now ELSE t
    /\ fps' = FpsAfter(frame_times', fps)
    /\ lock' = NoOne
    /\ prod' = "idle"
    /\ UNCHANGED <<variant, latest_frame, frame_id, timestamp, connected,
                   jpeg_bytes, current_time, samples, src_down, stored,
                   history, sess_vars, down_at, aux_vars>>

\* v2 lines 142-146, v3 lines 161-164, v4 lines 115-117: a bus ERROR message,
\* handled on the GLib main loop thread, without the lock.
BusError ==
    /\ variant \in {2, 3, 4}
    /\ src_down = FALSE
    /\ src_down' = TRUE
    /\ connected' = IF variant \in {2, 3} THEN FALSE ELSE connected
    /\ down_at' = IF variant \in {2, 3} THEN frame_id ELSE down_at
    /\ UNCHANGED <<variant, now, latest_frame, frame_id, timestamp, fps,
                   frame_times, lock, prod, jpeg_bytes, current_time,
                   samples, stored, history, sess_vars, aux_vars>>

\* v2 lines 150-152: EOS sets connected = False.  v3 lines 159-168 and
\* v4 lines 113-121 have no branch for EOS.
BusEOS ==
    /\ variant \in {2, 3, 4}
    /\ src_down = FALSE
    /\ src_down' = TRUE
    /\ connected' = IF variant = 2 THEN FALSE ELSE connected
    /\ down_at' = IF variant = 2 THEN frame_id ELSE down_at
    /\ UNCHANGED <<variant, now, latest_frame, frame_id, timestamp, fps,
                   frame_times, lock, prod, jpeg_bytes, current_time,
                   samples, stored, history, sess_vars, aux_vars>>

\* v1 lines 95-99: cap.read() fails, the thread sleeps 10 ms and reads again
ReadFail ==
    /\ variant = 1
    /\ prod = "idle"
    /\ src_down = FALSE
    /\ src_down' = TRUE
    /\ UNCHANGED <<variant, now, state_vars, lock, prod, jpeg_bytes,
                   current_time, samples, stored, history, down_at, sess_vars,
                   aux_vars>>

\* ------------------------------------------- the frame id in the header
\* 2^16: a frame id is written in two halves, id = hi * HalfWord + lo
HalfWord == 65536

\* the frame id that the counter value k stands for: id_base + k
FullId(k) ==
    [hi |-> id_base.hi + (id_base.lo + k) \div HalfWord,
     lo |-> (id_base.lo + k) % HalfWord]

\* the two low bytes of n, least significant first
TwoBytes(n) == <<n % 256, (n \div 256) % 256>>

\* (mutation of PackU32Wide: the id is reduced modulo 2^32, as a C cast does)
PackU32Wide_Wraps(w) == TwoBytes(w.lo) \o TwoBytes(w.hi % HalfWord)

\* struct.pack('<I', id) for a Python int, v3 line 249, v4 line 183: four
\* bytes, little-endian, for 0 <= id <= 2^32 - 1; for a larger id it raises
\* struct.error and yields no bytes (written here as the empty sequence)
PackU32Wide(w) ==
    IF w.hi < HalfWord THEN TwoBytes(w.lo) \o TwoBytes(w.hi) ELSE << >>

\* ------------------------------------------------------------ sessions
\* (mutation of SessionCanLock: handle_client reads without the lock)
SessionCanLock_NoLock == TRUE

\* `with video_state.lock:` in handle_client can go on when the lock is free;
\* otherwise the event loop thread blocks in it
SessionCanLock == lock = NoOne

\* (mutation of HasNewFrame: the id is not compared with last_frame_id)
HasNewFrame_NoIdTest(s) == latest_frame # None

\* (mutation of HasNewFrame: latest_frame is not tested for None)
HasNewFrame_NoNoneTest(s) ==
    IF variant = 1
       THEN frame_id > last_frame_id[s]
       ELSE frame_id # last_frame_id[s]

\* the test that decides whether the poll sends:
\* v1 line 157, v2 line 227, v3 lines 230-236, v4 line 170
HasNewFrame(s) ==
    IF variant = 1
       THEN frame_id > last_frame_id[s] /\ latest_frame # None
       ELSE latest_frame # None /\ frame_id # last_frame_id[s]

\* (mutation of ReadSlot: the session is served the frame after the one it
\* sent last, from a backlog, instead of the newest)
ReadSlot_Backlog(s) ==
    LET next == IF last_frame_id[s] < 1 THEN 1 ELSE last_frame_id[s] + 1
        k == IF next <= Len(stored) THEN next ELSE Len(stored)
    IN  [id |-> k, data |-> stored[k], ts |-> timestamp,
         fps |-> IF variant = 4 THEN ZeroFps ELSE fps]

\* the locals copied from video_state inside the lock:
\* v1 lines 150-153, v2 lines 231-234, v3 lines 239-242, v4 lines 171-173
\* (v4 reads no fps and puts 0.0 in the header)
ReadSlot(s) ==
    [id |-> frame_id, data |-> latest_frame, ts |-> timestamp,
     fps |-> IF variant = 4 THEN ZeroFps ELSE fps]

\* the kind of the first message passed to a transport, once there is one
FirstKind(old, kind) == IF old = "none" THEN kind ELSE old

\* handle_client starts: the session is registered; v1 then awaits the send
\* of the initial status message, v2..v4 set last_frame_id = -1 and go for
\* the lock.  Sessions are numbered in the order in which they connect.
Connect(s) ==
    /\ pc[s] = "idle"
    /\ \A r \in AllSessions : r < s => pc[r] # "idle"
    /\ cur = NoOne
    /\ connected_clients' = connected_clients \cup {s}
    /\ IF variant = 1
          THEN /\ pc' = [pc EXCEPT ![s] = "status_send"]
               /\ first_msg' = [first_msg EXCEPT ![s] = FirstKind(@, "status")]
               /\ cur' = NoOne
          ELSE /\ pc' = [pc EXCEPT ![s] = "acquire"]
               /\ UNCHANGED first_msg
               /\ cur' = s
    /\ UNCHANGED <<variant, now, state_vars, lock, prod_vars, last_frame_id,
                   snap, last_sent, prev_sent, delivered, aux_vars>>

\* v1 lines 139-146: the initial status send completes, last_frame_id = -1
StatusSendOk(s) ==
    /\ variant = 1
    /\ pc[s] = "status_send"
    /\ cur = NoOne
    /\ pc' = [pc EXCEPT ![s] = "acquire"]
    /\ cur' = s
    /\ UNCHANGED <<variant, now, state_vars, lock, prod_vars,
                   connected_clients, last_frame_id, snap, last_sent,
                   prev_sent, delivered, first_msg, aux_vars>>

\* the running coroutine enters `with video_state.lock:`
Acquire(s) ==
    /\ pc[s] = "acquire"
    /\ cur = s
    /\ SessionCanLock
    /\ lock' = s
    /\ pc' = [pc EXCEPT ![s] = "locked"]
    /\ UNCHANGED <<variant, now, state_vars, prod_vars, connected_clients,
                   last_frame_id, snap, last_sent, prev_sent, delivered, cur,
                   first_msg,
                   aux_vars>>

\* the body of the `with` block and what follows it up to the next await.
\* v1 lines 149-173: copy, leave the block, then send or sleep.
\* v2 lines 226-248 and v3 lines 229-253: with no (new) frame the coroutine
\* awaits asyncio.sleep INSIDE the block, the lock still taken; otherwise it
\* copies, leaves the block and awaits the send.
\* v4 lines 169-187: copy if new, leave the block, then sleep or send.
\* v3 line 249, v4 line 183: between the copy and the send the header is
\* packed; when struct.pack raises, the exception ends the handler through
\* its `finally` (v3 lines 263-266, v4 lines 196-197) and nothing is sent.
Read(s) ==
    /\ pc[s] = "locked"
    /\ cur = s
    /\ cur' = NoOne
    /\ IF HasNewFrame(s) /\ variant \in {3, 4}
                         /\ PackU32Wide(FullId(frame_id)) = << >>
          THEN /\ lock' = NoOne
               /\ last_frame_id' = [last_frame_id EXCEPT ![s] = frame_id]
               /\ pc' = [pc EXCEPT ![s] = "closed"]
               /\ connected_clients' = connected_clients \ {s}
               /\ UNCHANGED <<snap, last_sent, prev_sent, first_msg>>
          ELSE IF HasNewFrame(s)
          THEN /\ snap' = [snap EXCEPT ![s] = ReadSlot(s)]
               /\ lock' = NoOne
               /\ last_frame_id' = [last_frame_id EXCEPT ![s] = snap'[s].id]
               /\ last_sent' = [last_sent EXCEPT ![s] = snap'[s].id]
               /\ prev_sent' = [prev_sent EXCEPT ![s] = last_sent[s]]
               /\ first_msg' = [first_msg EXCEPT ![s] = FirstKind(@, "frame")]
               /\ pc' = [pc EXCEPT ![s] = "send"]
               /\ UNCHANGED connected_clients
          ELSE /\ UNCHANGED snap
               /\ lock' = IF variant \in {2, 3} THEN lock ELSE NoOne
               /\ pc' = [pc EXCEPT ![s] =
                            IF variant \in {2,
                            3} THEN "sleep_locked" ELSE "sleep"]
               /\ UNCHANGED <<last_frame_id, last_sent, prev_sent, first_msg,
                              connected_clients>>
    /\ UNCHANGED <<variant, now, state_vars, prod_vars, delivered, aux_vars>>

\* asyncio.sleep is over and the loop resumes the coroutine; in v2/v3 the
\* `continue` after the sleep inside the block leaves it and frees the lock
Wake(s) ==
    /\ pc[s] \in {"sleep", "sleep_locked"}
    /\ cur = NoOne
    /\ cur' = s
    /\ lock' = IF pc[s] = "sleep_locked" THEN NoOne ELSE lock
    /\ pc' = [pc EXCEPT ![s] = "acquire"]
    /\ snap' = [snap EXCEPT ![s] = NoSnap]
    /\ UNCHANGED <<variant, now, state_vars, prod_vars, connected_clients,
                   last_frame_id, last_sent, prev_sent, delivered, first_msg,
                   aux_vars>>

\* `await websocket.send(message)` returns; the coroutine goes on to
\* asyncio.sleep (v1 line 173, v2 line 251, v3 line 259, v4 line 192).
\* A send to the consumer that never reads stays pending.
SendOk(s) ==
    /\ pc[s] = "send"
    /\ s # stalled
    /\ cur = NoOne
    /\ pc' = [pc EXCEPT ![s] = "sleep"]
    /\ delivered' = [delivered EXCEPT ![s] = snap[s].id]
    /\ snap' = [snap EXCEPT ![s] = NoSnap]
    /\ UNCHANGED <<variant, now, state_vars, lock, prod_vars,
                   connected_clients, last_frame_id, last_sent, prev_sent,
                   cur, first_msg, aux_vars>>

\* `await websocket.send(...)` raises (the transport is closed or broken);
\* the handler ends through `finally: connected_clients.discard(websocket)`
\* (v1 lines 175-178, v2 lines 253-258, v3 lines 254-266, v4 lines 188-198)
SendFail(s) ==
    /\ pc[s] \in {"status_send", "send"}
    /\ s # stalled
    /\ cur = NoOne
    /\ pc' = [pc EXCEPT ![s] = "closed"]
    /\ connected_clients' = connected_clients \ {s}
    /\ snap' = [snap EXCEPT ![s] = NoSnap]
    /\ UNCHANGED <<variant, now, state_vars, lock, prod_vars, last_frame_id,
                   last_sent, prev_sent, delivered, cur, first_msg, aux_vars>>

\* ---------------------------------------------------- status broadcaster
\* the status message is passed to the transports of the clients in C
StatusTo(C) ==
    [s \in AllSessions |->
        IF s \in C THEN FirstKind(first_msg[s], "status") ELSE first_msg[s]]

\* v1 lines 183-195: one tick of broadcast_status.  websockets.broadcast
\* writes the message to every connection of connected_clients in one call,
\* with no await; a connection whose write fails is skipped and nothing is
\* raised.  Then the task sleeps for a second.
BroadcastAll ==
    /\ variant = 1
    /\ b_pc = "sleep"
    /\ cur = NoOne
    /\ connected_clients # {}
    /\ b_snap' = connected_clients
    /\ b_sent' = connected_clients
    /\ \E F \in {{}} \cup {{c} : c \in connected_clients} : b_fail' = F
    /\ first_msg' = StatusTo(connected_clients)
    /\ UNCHANGED <<variant, now, state_vars, lock, prod_vars, connected_clients,
                   pc, last_frame_id, snap, last_sent, prev_sent, delivered,
                   cur, b_pc,
                   b_todo, b_curr, life_vars, wire_vars, env_vars>>

\* v2 lines 263-281: the sleep is over, the registry is not empty: the
\* message is built, the registry is copied with list(connected_clients) and
\* the send to the first client of the copy is awaited.  The order of the
\* copy is the iteration order of the set, which is arbitrary.
BroadcastBegin ==
    /\ variant = 2
    /\ b_pc = "sleep"
    /\ cur = NoOne
    /\ connected_clients # {}
    /\ b_snap' = connected_clients
    /\ b_fail' = {}
    /\ \E c \in connected_clients :
          /\ b_curr' = c
          /\ b_todo' = connected_clients \ {c}
          /\ b_sent' = {c}
          /\ first_msg' = StatusTo({c})
    /\ b_pc' = "send"
    /\ UNCHANGED <<variant, now, state_vars, lock, prod_vars, connected_clients,
                   pc, last_frame_id, snap, last_sent, prev_sent, delivered,
                   cur,
                   life_vars, wire_vars, env_vars>>

\* v2 lines 279-283: `await client.send(message)` returns (ok) or raises and
\* `except: pass` drops the exception; the loop goes to the next client of
\* the copy, or is over and the task sleeps (line 263).  While the awaited
\* send is to the consumer that never reads, the task stays suspended in it.
BroadcastNext(ok) ==
    /\ variant = 2
    /\ b_pc = "send"
    /\ b_curr # stalled
    /\ cur = NoOne
    /\ b_fail' = IF ok THEN b_fail ELSE b_fail \cup {b_curr}
    /\ IF b_todo = {}
          THEN /\ b_pc' = "sleep"
               /\ b_curr' = NoOne
               /\ UNCHANGED <<b_todo, b_sent, first_msg>>
          ELSE /\ \E c \in b_todo :
                     /\ b_curr' = c
                     /\ b_todo' = b_todo \ {c}
                     /\ b_sent' = b_sent \cup {c}
                     /\ first_msg' = StatusTo({c})
               /\ UNCHANGED b_pc
    /\ UNCHANGED <<variant, now, state_vars, lock, prod_vars, connected_clients,
                   pc, last_frame_id, snap, last_sent, prev_sent, delivered,
                   cur, b_snap,
                   life_vars, wire_vars, env_vars>>

\* ------------------------------------------------------- main, shutdown
Signals == {"SIGINT", "SIGTERM"}

\* the receiver after a start() that returned False.
\* v2 lines 163-167: Gst.parse_launch raised, self.pipeline is not assigned.
\* v2 lines 179-182: the pipeline was created and set_state(PLAYING)
\* returned FAILURE; the pipeline is left in the last state it reached on
\* the way from NULL to PLAYING; running is not assigned.
StartFailures(r) ==
    {r} \cup {[pipeline |-> TRUE, state |-> st, running |-> r.running] :
                  st \in {"NULL", "READY", "PAUSED"}}

\* (mutation of Stop: a stop of a stopped pipeline sets it playing again)
Stop_Toggle(r) ==
    IF r.pipeline
       THEN [r EXCEPT !.state = IF r.state = "NULL" THEN "PLAYING" ELSE "NULL",
                      !.running = IF variant = 4 THEN r.running ELSE FALSE]
       ELSE r

\* GO2VideoReceiver.stop(), v2 lines 188-193, v3 lines 196-199: with a
\* pipeline, set_state(NULL) and running = False; v4 lines 146-148 leave
\* running alone.  Without a pipeline nothing is done.
Stop(r) ==
    IF r.pipeline
       THEN [r EXCEPT !.state = "NULL",
                      !.running = IF variant = 4 THEN r.running ELSE FALSE]
       ELSE r

\* v1 lines 78-89: the capture is opened, connected = True.
\* v2 lines 321-322, v3 lines 300-301, v4 lines 249-250: receiver.start()
\* returns True.  main goes on to asyncio.run(...).
SourceStartOk ==
    /\ main_pc = "start"
    /\ source' = "running"
    /\ receiver' = IF variant = 1 THEN receiver ELSE StartedReceiver
    /\ recv_calls' = IF variant = 1 THEN recv_calls
                     ELSE Append(recv_calls, "start")
    /\ connected' = IF variant = 1 THEN TRUE ELSE connected
    /\ main_pc' = "serving"
    /\ UNCHANGED <<variant, now, latest_frame, frame_id, timestamp, fps,
                   frame_times, lock, prod_vars, sess_vars, bcast_vars, sig,
                   exit_status, wire_vars, env_vars>>

\* the source cannot be started.
\* v1 lines 80-87 and 245-255: the capture thread sets connected = False and
\* returns; main waits 5 s, prints a warning and starts the server anyway.
\* v2 lines 322-324, v3 lines 301-302, v4 lines 250-252: sys.exit(1).
SourceStartFail ==
    /\ main_pc = "start"
    /\ source' = "failed"
    /\ \E f \in StartFailures(receiver) :
          receiver' = IF variant = 1 THEN receiver ELSE f
    /\ recv_calls' = IF variant = 1 THEN recv_calls
                     ELSE Append(recv_calls, "start_failed")
    /\ connected' = IF variant = 1 THEN FALSE ELSE connected
    /\ IF variant = 1
          THEN main_pc' = "serving" /\ UNCHANGED exit_status
          ELSE main_pc' = "exited" /\ exit_status' = 1
    /\ UNCHANGED <<variant, now, latest_frame, frame_id, timestamp, fps,
                   frame_times, lock, prod_vars, sess_vars, bcast_vars, sig,
                   wire_vars, env_vars>>

\* (mutation of Ended: the handler ends without its `finally`)
Ended_KeepsRegistered(S) ==
    /\ UNCHANGED connected_clients
    /\ pc' = [s \in AllSessions |->
                 IF s \in S /\ pc[s] # "idle" THEN "closed" ELSE pc[s]]
    /\ snap' = [s \in AllSessions |-> IF s \in S THEN NoSnap ELSE snap[s]]
    /\ lock' = IF lock \in S THEN NoOne ELSE lock
    /\ cur' = NoOne

\* what is left of a handle_client whose coroutine is ended by an exception
\* at the point where it stands: `finally: connected_clients.discard`, and
\* a `with video_state.lock:` it is inside is left
Ended(S) ==
    /\ connected_clients' = connected_clients \ S
    /\ pc' = [s \in AllSessions |->
                 IF s \in S /\ pc[s] # "idle" THEN "closed" ELSE pc[s]]
    /\ snap' = [s \in AllSessions |-> IF s \in S THEN NoSnap ELSE snap[s]]
    /\ lock' = IF lock \in S THEN NoOne ELSE lock
    /\ cur' = NoOne

\* a signal arrives while main is in asyncio.run; Python runs the handler on
\* the main thread, which is the event loop thread.
\* v1 installs no handler: SIGINT raises KeyboardInterrupt, SIGTERM ends the
\* process at once (status 128 + 15).
\* v2 lines 327-335, v3 lines 304-312: signal_handler is entered.
\* v4 lines 254-256: signal_handler's first statement uses shutdown_event,
\* a name defined nowhere, and raises NameError; raised while a handler
\* coroutine runs, the exception ends that handler's task and the server
\* goes on, otherwise it leaves asyncio.run.
Signal(sg) ==
    /\ main_pc = "serving"
    /\ sig = "none"
    /\ sig' = sg
    /\ IF variant = 1 /\ sg = "SIGTERM"
          THEN /\ main_pc' = "exited"
               /\ exit_status' = 143
               /\ UNCHANGED <<connected_clients, pc, snap, lock, cur>>
          ELSE IF variant = 4 /\ cur # NoOne
          THEN /\ Ended({cur})
               /\ UNCHANGED <<main_pc, exit_status>>
          ELSE /\ main_pc' = IF variant \in {2, 3} THEN "handler" ELSE "unwind"
               /\ UNCHANGED <<exit_status, connected_clients, pc, snap, lock,
                              cur>>
    /\ UNCHANGED <<variant, now, state_vars, prod_vars, last_frame_id,
                   last_sent, prev_sent, delivered, first_msg, bcast_vars,
                   source,
                   receiver, recv_calls, wire_vars, env_vars>>

\* receiver.stop(): pipeline.set_state(Gst.State.NULL) shuts the streaming
\* thread down and returns once that thread is out of on_new_sample
StopSource ==
    /\ prod = "idle"
    /\ source' = "stopped"
    /\ receiver' = Stop(receiver)
    /\ recv_calls' = Append(recv_calls, "stop")

\* v2 lines 329-332, v3 lines 306-309: receiver.stop(), glib_loop.quit(),
\* sys.exit(0) raises SystemExit out of the handler
HandlerStop ==
    /\ main_pc = "handler"
    /\ StopSource
    /\ main_pc' = "unwind"
    /\ UNCHANGED <<variant, now, state_vars, lock, prod_vars, sess_vars,
                   bcast_vars, sig, exit_status, wire_vars, env_vars>>

\* the exception leaves the event loop and asyncio.run cancels every task
\* before it lets the exception through: each handle_client is ended at its
\* await and runs its `finally`.  v1 lines 256-257 catch KeyboardInterrupt
\* and main returns; v2 lines 342-345, v3 lines 318-321, v4 lines 270-273
\* go through `finally`.
Unwind ==
    /\ main_pc = "unwind"
    /\ Ended(AllSessions)
    /\ main_pc' = IF variant = 1 THEN "exiting" ELSE "finally"
    /\ UNCHANGED <<variant, now, state_vars, prod_vars, last_frame_id,
                   last_sent, prev_sent, delivered, first_msg, bcast_vars,
                   source, sig,
                   exit_status, receiver, recv_calls, wire_vars, env_vars>>

\* v2 lines 342-345, v3 lines 318-321, v4 lines 270-273: `finally:
\* receiver.stop()`, a second time in v2/v3, and glib_loop.quit()
FinallyStop ==
    /\ main_pc = "finally"
    /\ StopSource
    /\ main_pc' = "exiting"
    /\ UNCHANGED <<variant, now, state_vars, lock, prod_vars, sess_vars,
                   bcast_vars, sig, exit_status, wire_vars, env_vars>>

\* the interpreter exits: status 0 after KeyboardInterrupt was caught (v1)
\* or SystemExit(0) was raised (v2, v3), status 1 for the NameError that
\* nothing caught (v4).  The daemon threads end with the process.
Exit ==
    /\ main_pc = "exiting"
    /\ exit_status' = IF variant = 4 THEN 1 ELSE 0
    /\ main_pc' = "exited"
    /\ UNCHANGED <<variant, now, state_vars, lock, prod_vars, sess_vars,
                   bcast_vars, source, sig, receiver, recv_calls, wire_vars,
                   env_vars>>

\* ------------------------------------- the receiver object by itself
\* a GO2VideoReceiver on which start() and stop() are called in any order
InitRecv == InitLife /\ variant \in {2, 3, 4}

\* receiver.start() on a receiver that is not playing: v2 lines 158-186,
\* v3 lines 170-194, v4 lines 123-144; it returns True or False
RecvStart ==
    /\ Len(recv_calls) < MaxCalls
    /\ receiver.state # "PLAYING"
    /\ \E r \in {StartedReceiver} \cup StartFailures(receiver) :
          /\ receiver' = r
          /\ recv_calls' = Append(recv_calls,
                                  IF r = StartedReceiver THEN "start"
                                  ELSE "start_failed")
    /\ UNCHANGED <<variant, now, state_vars, lock, prod_vars, sess_vars,
                   bcast_vars, main_pc, source, sig, exit_status, wire_vars,
                   env_vars>>

\* receiver.stop(): v2 lines 188-193, v3 lines 196-199, v4 lines 146-148
RecvStop ==
    /\ Len(recv_calls) < MaxCalls
    /\ receiver' = Stop(receiver)
    /\ recv_calls' = Append(recv_calls, "stop")
    /\ UNCHANGED <<variant, now, state_vars, lock, prod_vars, sess_vars,
                   bcast_vars, main_pc, source, sig, exit_status, wire_vars,
                   env_vars>>

NextRecv == RecvStart \/ RecvStop

\* ------------------------------------------------ wire codec (v3, v4)
RECURSIVE Pow2(_)
Pow2(k) == IF k = 0 THEN 1 ELSE 2 * Pow2(k - 1)

RECURSIVE Log2(_)
\* floor of the binary logarithm of n >= 1
Log2(n) == IF n < 2 THEN 0 ELSE 1 + Log2(n \div 2)

\* the k low bytes of n, least significant first
LittleEndian(n, k) == [i \in 1..k |-> (n \div Pow2(8 * (i - 1))) % 256]

\* the value of a little-endian byte sequence
RECURSIVE FromLittleEndian(_)
FromLittleEndian(b) ==
    IF b = << >> THEN 0 ELSE Head(b) + 256 * FromLittleEndian(Tail(b))

\* (mutation of PackU32: network byte order)
PackU32_BigEndian(n) == [i \in 1..4 |-> (n \div Pow2(8 * (4 - i))) % 256]

\* struct.pack('<I', n): 4 bytes, little-endian
PackU32(n) == LittleEndian(n, 4)

\* struct.pack('<d', t) for a time t that is a whole number below 2^20:
\* IEEE 754 binary64, sign 0, biased exponent e + 1023 in 11 bits, then the
\* 52 fraction bits, of which only the 20 high ones can be set
PackF64(t) ==
    LET e == Log2(t)
        high == IF t = 0 THEN 0
                ELSE (e + 1023) * Pow2(20) + (t - Pow2(e)) * Pow2(20 - e)
    IN  LittleEndian(0, 4) \o LittleEndian(high, 4)

\* struct.pack('<f', n / d) for a rate n / d >= 0: IEEE 754 binary32, sign
\* 0, biased exponent e + 127 in 8 bits, 23 fraction bits, rounded to
\* nearest, ties to even
PackF32(r) ==
    LET n == r[1]
        d == r[2]
        e0 == IF n >= d THEN Log2(n \div d)
              ELSE -(CHOOSE k \in 1..24 :
                        n * Pow2(k) >= d /\ n * Pow2(k - 1) < d)
        num == n * Pow2(23 - e0)
        q0 == num \div d
        rem == num % d
        q1 == IF 2 * rem > d \/ (2 * rem = d /\ q0 % 2 = 1) THEN q0 + 1 ELSE q0
        e == IF q1 = Pow2(24) THEN e0 + 1 ELSE e0
        q == IF q1 = Pow2(24) THEN Pow2(23) ELSE q1
    IN  IF n = 0 THEN LittleEndian(0, 4)
        ELSE LittleEndian((e + 127) * Pow2(23) + (q - Pow2(23)), 4)

\* v3 line 249, v4 line 183: struct.pack('<I d f', frame_id, timestamp, fps);
\* with '<' there is no padding and the blanks in the format mean nothing
Header(id, ts, r) == PackU32(id) \o PackF64(ts) \o PackF32(r)

\* the bytes of the encoded image number k: a JPEG start marker, then k bytes
FrameBytes(k) == <<255, 216>> \o [i \in 1..k |-> (7 * i + k) % 256]

\* v3 line 250, v4 line 184: message = header + frame_data
Message(w) == Header(w.id, w.ts, w.fps) \o FrameBytes(w.data)

\* what a consumer reads back from a message: '<I' at bytes 0..3, '<d' at
\* bytes 4..11 (a whole number below 2^20), the payload from byte 16 on
UnpackId(msg) == FromLittleEndian(SubSeq(msg, 1, 4))

UnpackTimestamp(msg) ==
    LET high == FromLittleEndian(SubSeq(msg, 9, 12))
        e == (high \div Pow2(20)) - 1023
        frac == high % Pow2(20)
    IN  IF high = 0 /\ FromLittleEndian(SubSeq(msg, 5, 8)) = 0 THEN 0
        ELSE IF e \in 0..19 /\ FromLittleEndian(SubSeq(msg, 5, 8)) = 0
                /\ frac % Pow2(20 - e) = 0
        THEN Pow2(e) + frac \div Pow2(20 - e)
        ELSE -1

UnpackPayload(msg) == SubSeq(msg, 17, Len(msg))

\* the locals of handle_client after a snapshot: frame ids over the four
\* bytes of the field, whole-number times, the rates the FPS window yields
\* (v4 passes the constant 0.0), encoded images of several lengths
WireIds == {0, 1, 2, 255, 256, 65535, 65536, 16777216, 2147483647}
WireTimes == {0, 1, 2, 3, 1000, 1048575}
WireRates == {ZeroFps, <<1, 1>>, <<1, 2>>, <<2, 1>>, <<1, 3>>, <<29, 1>>,
              <<59, 2>>}
WireFrames == 0..3

WireInputs ==
    {w \in [id : WireIds, data : WireFrames, ts : WireTimes, fps : WireRates] :
        variant = 4 => w.fps = ZeroFps}

\* a binary variant with a snapshot in the locals of one handle_client
InitWire ==
    /\ InitState
    /\ variant \in {3, 4}
    /\ connected = FALSE
    /\ main_pc = "serving"
    /\ source = "running"
    /\ receiver = StartedReceiver
    /\ recv_calls = <<"start">>
    /\ wire_in \in WireInputs
    /\ stalled = NoOne

\* v3 lines 248-250, v4 lines 182-184: the header is packed and the message
\* is built
BuildMessage ==
    /\ variant \in {3, 4}
    /\ wire_msg = << >>
    /\ wire_msg' = Message(wire_in)
    /\ UNCHANGED <<variant, now, state_vars, lock, prod_vars, sess_vars,
                   bcast_vars, life_vars, wire_in, env_vars>>

\* the message a session has built and is sending: v3 lines 249-250, v4
\* lines 183-184, header + frame_data, with the frame id in full
SessionMessage(s) ==
    PackU32Wide(FullId(snap[s].id)) \o PackF64(snap[s].ts)
        \o PackF32(snap[s].fps) \o FrameBytes(snap[s].data)

\* what a consumer reads back from bytes 0..3, in two halves
UnpackIdWide(msg) ==
    [hi |-> msg[3] + 256 * msg[4], lo |-> msg[1] + 256 * msg[2]]

\* the server of a binary variant long after its start: the frame counter
\* stands at 2^32 - 2, the slot holds the frame of that id, the window is
\* full, and the clock has read 1 for the frames it holds.  frame_id,
\* last_frame_id and the ids of the snapshots count from id_base.
InitWrap ==
    /\ variant \in {3, 4}
    /\ id_base = [hi |-> HalfWord - 1, lo |-> HalfWord - 2]
    /\ latest_frame = 1
    /\ frame_id = 0
    /\ timestamp = 1
    /\ fps = ZeroFps
    /\ frame_times = [i \in 1..FrameTimesMaxlen |-> 1]
    /\ InitRest
    /\ connected = (variant = 3)
    /\ main_pc = "serving"
    /\ source = "running"
    /\ receiver = StartedReceiver
    /\ recv_calls = <<"start">>
    /\ wire_in = NoSnap
    /\ stalled = NoOne

\* ------------------------------------------------------------------ Next
ProducerStep ==
    \/ NewSample
    \/ EncodeFail
    \/ ProdAcquire
    \/ ProdWriteFrame
    \/ ProdWriteId
    \/ ProdWriteTs
    \/ ProdFps

SourceEvent ==
    \/ BusError
    \/ BusEOS
    \/ ReadFail

SessionStep(s) ==
    \/ Connect(s)
    \/ StatusSendOk(s)
    \/ Acquire(s)
    \/ Read(s)
    \/ Wake(s)
    \/ SendOk(s)
    \/ SendFail(s)

Next ==
    \/ ProducerStep
    \/ SourceEvent
    \/ \E s \in Sessions : SessionStep(s)

\* one session more, with a source that reports no failure
NextWide ==
    \/ ProducerStep
    \/ \E s \in AllSessions : SessionStep(s)

BroadcastStep ==
    \/ BroadcastAll
    \/ BroadcastBegin
    \/ \E ok \in BOOLEAN : BroadcastNext(ok)

\* the variants with a status broadcaster, with a source that reports no
\* failure
InitBcast == Init /\ variant \in {1, 2}

\* the same server with one consumer that stops reading: every send to it
\* stays pending (its receive window and the socket buffers are full)
InitStall == InitServing /\ variant \in {1, 2} /\ stalled \in Sessions

NextBcast ==
    \/ ProducerStep
    \/ BroadcastStep
    \/ \E s \in Sessions : SessionStep(s)

\* main from its start to the exit of the process: the producer runs while
\* the source does, the sessions while the event loop serves
LifeProducerStep == source = "running" /\ main_pc # "exited" /\ ProducerStep

LifeSessionStep(s) == main_pc = "serving" /\ SessionStep(s)

MainStep ==
    \/ SourceStartOk
    \/ SourceStartFail
    \/ \E sg \in Signals : Signal(sg)
    \/ HandlerStop
    \/ Unwind
    \/ FinallyStop
    \/ Exit

NextLife ==
    \/ MainStep
    \/ LifeProducerStep
    \/ \E s \in Sessions : LifeSessionStep(s)

NextWire == BuildMessage

Spec == Init /\ [][Next]_vars

SpecWire == InitWire /\ [][NextWire]_vars

SpecRecv == InitRecv /\ [][NextRecv]_vars

\* the steps of the binary variants
NextWrap ==
    \/ ProducerStep
    \/ BusError
    \/ BusEOS
    \/ \E s \in Sessions :
          Connect(s) \/ Acquire(s) \/ Read(s) \/ Wake(s) \/ SendOk(s)
              \/ SendFail(s)

SpecWrap == InitWrap /\ [][NextWrap]_vars

SpecLife == InitLife /\ [][NextLife]_vars

SpecBcast == InitBcast /\ [][NextBcast]_vars

SpecStall == InitStall /\ [][NextBcast]_vars

SpecWide == Init /\ [][NextWide]_vars

\* The producer thread is scheduled and a lock that is free again and again
\* is eventually obtained; the event loop resumes every coroutine whose
\* sleep or send is over.  Nothing forces a sample, a source event, a new
\* connection or a send failure.
Fairness(S) ==
    /\ SF_vars(ProdAcquire)
    /\ WF_vars(ProdWriteFrame)
    /\ WF_vars(ProdWriteId)
    /\ WF_vars(ProdWriteTs)
    /\ WF_vars(ProdFps)
    /\ \A s \in S :
          /\ SF_vars(StatusSendOk(s))
          /\ SF_vars(Acquire(s))
          /\ WF_vars(Read(s))
          /\ SF_vars(Wake(s))
          /\ SF_vars(SendOk(s))

FairSpec == Spec /\ Fairness(Sessions)

\* the event loop also resumes broadcast_status when its send is over
FairSpecBcast ==
    /\ SpecBcast
    /\ Fairness(Sessions)
    /\ WF_vars(\E ok \in BOOLEAN : BroadcastNext(ok))

\* ================================================================ claims
\* the steps with which the event loop carries a session on
SessionProgress(s) ==
    \/ StatusSendOk(s)
    \/ Acquire(s)
    \/ Read(s)
    \/ Wake(s)
    \/ SendOk(s)

ProducerStopped == samples = MaxSamples /\ prod = "idle" /\ frame_id >= 1

\* C1: video_state.lock is never held by a session whose coroutine is
\* suspended: whenever a session owns the lock, that session is the coroutine
\* the event loop is running (it has not reached an await with the lock).
C1_LockNotHeldAcrossAwait ==
    \A s \in AllSessions : lock = s => cur = s

\* C2: latest-wins liveness with several sessions: once the producer has
\* stored its last frame and stopped, every registered session eventually
\* passes the frame with the final id to its transport (or its transport
\* failed and the session ended).
C2_LatestWinsLiveness ==
    \A s \in AllSessions :
        (ProducerStopped /\ s \in connected_clients)
            ~> (last_sent[s] = frame_id \/ pc[s] = "closed")

\* C3: no backpressure on the producer: whenever the producer waits for
\* video_state.lock to store a frame, it eventually gets the lock.
C3_ProducerGetsLock ==
    (prod = "wait") ~> (prod # "wait")

\* C4: monotonic per-session delivery: the frame ids one session passes to
\* websocket.send are strictly increasing (ids may be skipped, none is
\* repeated or goes back).
C4_MonotonicDelivery ==
    \A s \in AllSessions : last_sent[s] # 0 => prev_sent[s] < last_sent[s]

C4_Witness ==
    \E s \in AllSessions : prev_sent[s] = 1 /\ last_sent[s] = 2 /\ pc[s] = "sleep"

\* C5 as stated: in EVERY reachable state frame_id is the number of frames
\* stored so far and latest_frame is the payload stored with that id, empty
\* exactly when frame_id = 0.
C5_SlotVersionInEveryState ==
    /\ frame_id = Len(stored)
    /\ (latest_frame = None) <=> (frame_id = 0)
    /\ frame_id > 0 => latest_frame = stored[frame_id]

\* C5 as amended: the same, in every state in which the producer does not
\* hold video_state.lock, that is in every state a reader that takes the lock
\* can observe.
C5_SlotVersionOutsideUpdate ==
    lock # Producer => C5_SlotVersionInEveryState

C5_Witness ==
    /\ lock # Producer
    /\ frame_id = 2
    /\ samples = 2
    /\ latest_frame = 2

\* C6: snapshot atomicity: the (frame_id, payload, timestamp) triple a session
\* holds from one poll was written together by one producer update.
C6_SnapshotAtomicity ==
    \A s \in AllSessions :
        snap[s] # NoSnap => <<snap[s].id, snap[s].data, snap[s].ts>> \in history

C6_Witness ==
    \E s \in AllSessions :
        /\ snap[s] # NoSnap /\ snap[s].id = 1 /\ snap[s].data = stored[1]
        /\ lock = Producer /\ prod = "w_id"
        /\ latest_frame = 2 /\ frame_id = 1

\* C7: latest-wins, no backlog: the frame a session obtains when it takes a
\* snapshot is the most recently stored one (its id is the number of frames
\* stored, its payload the last payload stored), so a frame overwritten
\* before the poll is never taken later.
C7_LatestWinsNoBacklog ==
    [][\A s \in AllSessions :
          (pc[s] = "locked" /\ pc'[s] = "send") =>
              /\ Len(stored) >= 1
              /\ snap'[s].id = Len(stored)
              /\ snap'[s].data = stored[Len(stored)]
              /\ snap'[s].id > last_sent[s]]_vars

C7_Witness ==
    \E s, r \in AllSessions :
        /\ pc[s] = "send" /\ snap[s].id = 2 /\ prev_sent[s] = 0
        /\ pc[r] = "send" /\ snap[r].id = 1
        /\ s \in connected_clients /\ r \in connected_clients

\* C8, the part about the failing step: the step that ends a session after
\* a failed send removes it from connected_clients and changes neither the
\* slot, the producer, the lock nor anything of another session; an ended
\* session sends nothing more.
C8_FailureStepIsLocal ==
    [][\A s \in AllSessions :
          /\ (pc[s] # "closed" /\ pc'[s] = "closed") =>
                /\ s \notin connected_clients'
                /\ UNCHANGED <<latest_frame, frame_id, timestamp, frame_times,
                               fps, connected, prod, lock, cur>>
                /\ \A r \in AllSessions \ {s} :
                      /\ (r \in connected_clients') <=> (r \in connected_clients)
                      /\ pc'[r] = pc[r]
                      /\ last_frame_id'[r] = last_frame_id[r]
                      /\ snap'[r] = snap[r]
          /\ pc[s] = "closed" =>
                (pc'[s] = "closed" /\ last_sent'[s] = last_sent[s])]_vars

\* C8: per-session transport failure is isolated, and the other sessions
\* keep receiving frames: once a session has ended on a failed send, every
\* other registered session can still go on, that is the event loop can run
\* a step of some session, or the lock it waits for is with the producer,
\* which frees it.
C8_OthersKeepReceiving ==
    \A s, r \in AllSessions :
        (s # r /\ pc[s] = "closed" /\ r \in connected_clients) =>
            \/ lock = Producer
            \/ ENABLED (\E x \in AllSessions : SessionProgress(x))

\* C9: an encode failure drops the sample without side effects: the step
\* that consumes a sample without going for the lock leaves frame_id,
\* latest_frame, timestamp, fps and the FPS window as they were and leaves
\* the producer ready for the next sample.
C9_EncodeFailureDropsSample ==
    [][(samples' = samples + 1 /\ prod' # "wait") =>
          /\ UNCHANGED <<frame_id, latest_frame, timestamp, fps, frame_times>>
          /\ prod' = "idle"]_vars

C9_Witness ==
    /\ prod = "idle"
    /\ samples = 2
    /\ frame_id = 1
    /\ latest_frame = 2
    /\ Len(frame_times) = 1

\* C10: when the upstream source reports an error or end-of-stream (a bus
\* ERROR or EOS message, a failing read in v1), connected becomes False and
\* latest_frame, frame_id and timestamp stay as they were.
C10_SourceFailureDisconnects ==
    [][(BusError \/ BusEOS \/ ReadFail) =>
          (connected' = FALSE /\ UNCHANGED slot)]_vars

\* C11: connectivity recovers on a later sample: in the variants with a
\* connected field, the step that completes a slot update leaves connected
\* True, and connected goes False only at a source event; so whenever
\* connected is False no slot update was completed since connected was last
\* set to False (one may be under way, its timestamp not yet written).
C11_ConnectivityRecovers ==
    /\ [](variant \in {1, 2, 3} /\ ~connected =>
            \/ frame_id = down_at
            \/ (prod = "w_ts" /\ frame_id = down_at + 1))
    /\ [][/\ (variant \in {1, 2, 3} /\ prod = "w_ts" /\ prod' = "w_fps")
                => connected'
          /\ (connected /\ ~connected') => (BusError \/ BusEOS)]_vars

C11_Witness ==
    /\ variant \in {2, 3}
    /\ down_at = 1
    /\ frame_id = 2
    /\ prod = "w_fps"
    /\ connected

\* C12: the last good frame stays servable: once a frame has been stored,
\* the source has failed and delivers nothing more, a session that is
\* registered and was sent nothing yet is eventually sent the last stored
\* frame (or its transport failed and the session ended), whatever connected
\* is.
C12_LastFrameServable ==
    \A s \in AllSessions :
        (ProducerStopped /\ src_down /\ s \in connected_clients
            /\ last_sent[s] = 0)
            ~> (last_sent[s] = frame_id \/ pc[s] = "closed")

\* C13: the first message passed to the transport of a session is a status
\* message, never a frame message.
C13_FirstMessageIsStatus ==
    \A s \in AllSessions : first_msg[s] # "frame"

\* the event loop thread is blocked for good: the coroutine it runs waits in
\* `with video_state.lock:` for a lock held by a suspended coroutine, which
\* only the event loop could resume
EventLoopBlocked ==
    \E s \in AllSessions :
        cur = s /\ pc[s] = "acquire" /\ lock \in AllSessions \ {s}

\* C14, the part about the tick: a failed send does not end the tick; when
\* the loop over the copied list is over, the message was passed to every
\* client of the copy, the failing ones included.
C14_FailureDoesNotAbortTick ==
    [][/\ (b_pc = "send" /\ b_fail' # b_fail /\ b_todo # {}) => b_pc' = "send"
       /\ (b_pc = "send" /\ b_pc' = "sleep") => b_sent = b_snap
       /\ (b_pc = "sleep" /\ b_snap' # b_snap /\ variant = 1)
             => b_sent' = connected_clients]_vars

\* C14: status fan-out isolation: once a send of a tick has failed, the
\* broadcaster goes on, to the other sessions of the tick and to later
\* ticks: the event loop that runs it is not blocked for good.
C14_BroadcasterKeepsRunning ==
    b_fail # {} => ~EventLoopBlocked

\* C15: a session whose status send failed during a broadcast to the whole
\* registry eventually leaves connected_clients.
C15_FailedSessionIsRemoved ==
    \A s \in AllSessions :
        (s \in b_fail /\ s \in connected_clients /\ b_snap = Sessions)
            ~> (s \notin connected_clients)

\* C16, the part about the recipients: the clients a tick sends to are those
\* registered when the tick began to send; a session that registers or
\* leaves during the tick changes neither the copy nor what is left of it.
C16_RecipientsAreSnapshot ==
    [][/\ (b_pc = "sleep" /\ b_snap' # b_snap)
             => (b_snap' = connected_clients /\ b_sent' \subseteq b_snap')
       /\ (b_pc = "send" /\ b_pc' = "send")
             => (b_snap' = b_snap /\ b_sent' \subseteq b_snap
                 /\ b_sent' \cup b_todo' = b_snap)
       /\ (b_pc = "send" /\ b_pc' = "sleep") => b_sent = b_snap
       /\ (b_pc = "send" /\ connected_clients' # connected_clients)
             => UNCHANGED <<b_pc, b_snap, b_todo, b_curr, b_sent>>]_vars

\* C16: a session that registers or leaves while the sends of a tick are in
\* progress does not block the broadcaster: the event loop that runs it is
\* not blocked for good.
C16_RegistryChangeDoesNotBlock ==
    (b_pc = "send" /\ connected_clients # b_snap) => ~EventLoopBlocked

\* C17: graceful shutdown exits 0: a process that ended after SIGINT or
\* SIGTERM arrived while it was serving ended with exit status 0.
C17_SignalExitsZero ==
    (main_pc = "exited" /\ sig # "none") => exit_status = 0

\* C18: shutdown stops the source and closes the sessions: when a process
\* has ended after a shutdown signal, the source it had started was stopped
\* or released and no session is left in connected_clients; and nothing is
\* stored in the slot once the source is stopped.
C18_ShutdownStopsSource ==
    /\ [](main_pc = "exited" /\ sig # "none" =>
            source # "running" /\ connected_clients = {})
    /\ [][source = "stopped" => UNCHANGED slot]_vars

\* C19: initialization failure is fatal: when the source could not be
\* started the process has exited with a non-zero status and never served,
\* so no session was accepted.
C19_InitFailureIsFatal ==
    source = "failed" =>
        /\ main_pc = "exited"
        /\ exit_status > 0
        /\ \A s \in AllSessions : pc[s] = "idle"

\* C20: wire header round trip and framing (v3, v4): a frame message is 16
\* header bytes followed by the payload, so its length is 16 + len(payload);
\* the u32 read little-endian from bytes 0..3 is the frame id of the
\* snapshot, the f64 read from bytes 4..11 is its timestamp, and bytes 16..
\* are the payload unchanged.
C20_WireRoundTrip ==
    wire_msg # << >> =>
        /\ Len(Header(wire_in.id, wire_in.ts, wire_in.fps)) = 16
        /\ Len(wire_msg) = 16 + Len(FrameBytes(wire_in.data))
        /\ UnpackId(wire_msg) = wire_in.id
        /\ UnpackTimestamp(wire_msg) = wire_in.ts
        /\ UnpackPayload(wire_msg) = FrameBytes(wire_in.data)

C20_Witness ==
    /\ wire_msg # << >>
    /\ wire_in.id = 65536
    /\ wire_in.ts = 1000
    /\ wire_in.data = 3
    /\ Len(wire_msg) = 21
    /\ SubSeq(wire_msg, 1, 4) = <<0, 0, 1, 0>>

\* the span of the retained window, newest entry minus oldest
WindowSpan == IF Len(frame_times) = 0 THEN 0
              ELSE frame_times[Len(frame_times)] - frame_times[1]

StoredTimestamps(k) == {h[3] : h \in {g \in history : g[1] = k /\ k >= 1}}

\* C22: FPS window bounded and drop-oldest: whenever the producer is not in
\* the middle of an update, frame_times holds at most FrameTimesMaxlen
\* entries, and after n stored frames it holds exactly the timestamps of the
\* last min(n, FrameTimesMaxlen) stored frames, in production order.
C22_WindowHoldsLastTimestamps ==
    lock # Producer =>
        LET n == Len(frame_times)
        IN  /\ n <= FrameTimesMaxlen
            /\ n = IF frame_id < FrameTimesMaxlen THEN frame_id
                   ELSE FrameTimesMaxlen
            /\ \A i \in 1..n :
                  frame_times[i] \in StoredTimestamps(frame_id - n + i)

\* C23: last_frame_id advanced only on successful send: in every reachable
\* state, a session's last_frame_id is never greater than the id of the last
\* frame whose websocket.send completed successfully for that session.
C23_LastFrameIdIsDelivered ==
    \A s \in AllSessions : last_frame_id[s] <= delivered[s]

\* C24: the fps carried in each frame message is the estimator's rate as of
\* that frame's snapshot: whenever a session copies the slot and goes on to
\* send, the fps it copies for the message equals the rate of the timestamp
\* window at that moment, (count - 1) / (newest - oldest), or 0 while the
\* window gives no rate; it is not a constant.
C24_FrameFpsIsRateAtSnapshot ==
    [][\A s \in AllSessions :
          pc[s] = "locked" /\ pc'[s] = "send" =>
              snap'[s].fps =
                  IF Len(frame_times) >= 2 /\ WindowSpan > 0
                     THEN <<Len(frame_times) - 1, WindowSpan>>
                     ELSE ZeroFps]_vars

\* C25 as stated: stop() is idempotent: a stop() that follows a stop()
\* leaves the receiver as it is, and a stop() made before any start() has
\* succeeded leaves the receiver as it is.
C25_StopIsIdempotentAndNoOpBeforeStart ==
    [][recv_calls' = Append(recv_calls, "stop") =>
          LET n == Len(recv_calls)
          IN  /\ (n >= 1 /\ recv_calls[n] = "stop") => receiver' = receiver
              /\ (\A i \in 1..n : recv_calls[i] # "start") =>
                     receiver' = receiver]_vars

\* C25 amended: stop() is idempotent in v2, v3 and v4: a stop() that follows
\* a stop() leaves the receiver as the first left it; and a stop() on a
\* receiver whose pipeline was never created (start() not called, or failed
\* in Gst.parse_launch) is a no-op.
C25_StopIsIdempotentAndNoOpWithoutPipeline ==
    [][recv_calls' = Append(recv_calls, "stop") =>
          LET n == Len(recv_calls)
          IN  /\ (n >= 1 /\ recv_calls[n] = "stop") => receiver' = receiver
              /\ ~receiver.pipeline => receiver' = receiver]_vars

C25_Witness ==
    /\ recv_calls = <<"start", "stop", "stop">>
    /\ receiver.pipeline
    /\ receiver.state = "NULL"

\* C26: registry membership tracks liveness: in every reachable state
\* connected_clients contains exactly the sessions whose handle_client has
\* begun and has not ended, whichever way it ended (peer close or send
\* error, an exception raised into it, cancellation at shutdown).
C26_RegistryIsRunningHandlers ==
    connected_clients = {s \in AllSessions : pc[s] \notin {"idle", "closed"}}

\* shutdown cancelled a handler that had sent a frame, after another handler
\* had ended with a failed send
C26_Witness ==
    /\ main_pc = "exiting"
    /\ connected_clients = {}
    /\ pc[1] = "closed" /\ pc[2] = "closed"
    /\ delivered[1] = 0 /\ last_frame_id[1] = 1
    /\ delivered[2] = 1

\* C27: no frame message before the first production: while the slot is
\* empty (frame_id = 0, latest_frame None) no session sends or has sent a
\* frame message, a session that polls then only sleeps, and every frame
\* message a session sends carries an id >= 1 and a payload.
C27_NoFrameBeforeFirstProduction ==
    /\ \A s \in AllSessions :
          pc[s] = "send" => snap[s].id >= 1 /\ snap[s].data # None
    /\ \A s \in AllSessions :
          first_msg[s] = "frame" => last_sent[s] >= 1
    /\ (frame_id = 0 /\ latest_frame = None) =>
          \A s \in AllSessions :
              /\ pc[s] # "send"
              /\ last_sent[s] = 0
              /\ first_msg[s] # "frame"

\* a session polled the empty slot and went to sleep
C27_Witness ==
    /\ frame_id = 0
    /\ latest_frame = None
    /\ samples = 0
    /\ \E s \in Sessions :
          /\ pc[s] \in {"sleep", "sleep_locked"}
          /\ last_frame_id[s] = -1
          /\ s \in connected_clients

\* C28: no silently wrapped frame id (v3, v4): for every frame message a
\* session sends, the 32-bit id read from the header equals the frame's full
\* id; and a session that took a frame whose id exceeds 2^32 - 1 sent no
\* message for it, has ended, and is out of connected_clients.
C28_NoWrappedFrameId ==
    \A s \in AllSessions :
        /\ pc[s] = "send" =>
              /\ Len(SessionMessage(s)) = 16 + Len(FrameBytes(snap[s].data))
              /\ UnpackIdWide(SessionMessage(s)) = FullId(snap[s].id)
        /\ (last_frame_id[s] >= 0 /\ FullId(last_frame_id[s]).hi >= HalfWord) =>
              /\ pc[s] = "closed"
              /\ s \notin connected_clients
              /\ last_sent[s] # last_frame_id[s]

\* a session was sent frame 2^32 - 1 and ended on frame 2^32
C28_Witness ==
    \E s \in Sessions :
        /\ FullId(delivered[s]) = [hi |-> HalfWord - 1, lo |-> HalfWord - 1]
        /\ FullId(last_frame_id[s]) = [hi |-> HalfWord, lo |-> 0]
        /\ pc[s] = "closed"
        /\ s \notin connected_clients

\* C29: a stalled consumer stalls only itself: broadcast_status is never
\* suspended in a send to the session whose sends never complete while
\* another session is registered, so that the other sessions go on to
\* receive the status messages of this and of later ticks.
C29_StalledConsumerStallsOnlyItself ==
    ~(/\ b_pc = "send"
      /\ b_curr = stalled
      /\ \E r \in connected_clients : r # stalled)

====
